---- MODULE Spec2Model ----
(***************************************************************************)
(* The chunked response codec of eth2-crawler:                             *)
(* ResponseChunkHandler.MakeResponseHandler                                *)
(* (crawler/rpc/request/handle_response.go).                               *)
(*                                                                         *)
(* One invocation of the ResponseHandler closure is modelled as a state    *)
(* machine.  The input stream r is an io.Reader: what each read returns is *)
(* chosen by the environment when the read happens (a byte, end of stream  *)
(* or a read error); once r has reported end of stream or an error it      *)
(* keeps reporting it.  The chunk handler is caller-supplied code: it      *)
(* reads from the reader it is given any number of times and returns nil   *)
(* or an error.                                                            *)
(*                                                                         *)
(* uint64 values decoded from the wire are kept as their sequence of 7-bit *)
(* groups (least significant first), which is exact for all 64 bits.       *)
(* The 64-bit values SnappyCompression.MaxEncodedLen (package reqresp)     *)
(* computes with are kept as four 16-bit limbs, least significant first;   *)
(* an int is kept as its two's complement pattern extended to 64 bits.     *)
(* Go leaves the width of int to the build (32 or 64 bits): the width is   *)
(* an input of every call.                                                 *)
(*                                                                         *)
(* The peer store (store/peerstore/mongo/mongo.go) is modelled next to it: *)
(* the collection is the sequence of its documents, every call of the      *)
(* driver (FindOne, InsertOne, UpdateOne, DeleteOne, Aggregate) is one     *)
(* atomic step, and the callers of the store interleave between the calls  *)
(* one store method makes.  The database is taken to be reachable: no      *)
(* driver call fails for a reason other than the documents it meets.       *)
(***************************************************************************)
EXTENDS Integers, Sequences, FiniteSets, TLC

(* ------------------------------ bounds -------------------------------- *)

\* largest maxChunkCount an invocation is built with
MaxCount == 2
\* largest maxChunkContentSize an invocation is built with
MaxContent == 2
\* largest buffer length of one handler read, besides the one large request
MaxRead == 2
\* most Read calls one handler invocation makes
MaxReads == 1
\* largest wire length of a compressed payload
MaxWire == 1
\* peer IDs the callers of the store use: 1..MaxPeers
MaxPeers == 2
\* concurrent callers of the store
NumProcs == 2
\* store methods one caller invokes
MaxOps == 1

(* ------------------------- program constants -------------------------- *)

\* ResponseCode values named by the orchestrator
SuccessCode == 0
InvalidReqCode == 1
ServerErrCode == 2
\* ceiling of the declared size of an error-coded chunk
MaxErrSize == 256
\* encoding/binary.MaxVarintLen64
MaxVarintLen64 == 10

NoIndex == -1

VARIABLES
    maxChunkCount,        \* MakeResponseHandler parameter
    maxChunkContentSize,  \* MakeResponseHandler parameter
    comp,                 \* MakeResponseHandler parameter: "nil" or "snappy"
    pc,                   \* position of the invocation in the closure
    chunkIndex,           \* loop variable
    resByte,              \* result byte of the chunk being decoded
    sizePrefix,           \* bytes of the size prefix read for this chunk
    chunkSize,            \* decoded size, as 7-bit groups
    blr,                  \* the BufLimitReader: [N, PerRead]
    r,                    \* input stream: [pos: bytes consumed, state]
    wClosed,              \* number of Close calls made on w
    compressCalls,        \* number of comp.Decompress/comp.Compress calls
    calls,                \* every handler call, in order: its chunkIndex,
                          \* status, the writer it was given, which
                          \* Decompress/Compress results it works on, and
                          \* how often that writer was closed
    hcall,                \* arguments and reads of the current handler call
    payloadLen,           \* bytes of payload the current chunk has on the wire
    log,                  \* what the input and the handler have done so far,
                          \* and where in r the current iteration began
    ret,                  \* return value of the invocation
    ctx,                  \* the context of the invocation: "live" or "cancelled"
    coll,                 \* mongoStore.coll: the documents of the collection
    proc,                 \* the callers of the store: the method each is in,
                          \* its argument, where it is, what it returned
    deleteRan,            \* a DeleteOne has been issued
    agg,                  \* the last aggregation: which one, the collection
                          \* it ran on, and its result
    maxEnc                \* the last call of SnappyCompression.MaxEncodedLen:
                          \* the width of int in the build, msgLen, and
                          \* what it returned

\* the parameters, streams and locals of one invocation
codec == <<maxChunkCount, maxChunkContentSize, comp, pc, chunkIndex, resByte,
           sizePrefix, chunkSize, blr, r, wClosed, compressCalls, calls,
           hcall, payloadLen, log, ret>>

\* the peer store and its callers
store == <<coll, proc, deleteRan, agg>>

\* what the steps of an invocation leave alone
outside == <<ctx, store, maxEnc>>

vars == <<codec, outside>>

(* --------------------------- uint64 values ---------------------------- *)

RECURSIVE Pow128(_)
Pow128(k) == IF k = 0 THEN 1 ELSE 128 * Pow128(k - 1)

\* the groups above the fourth are all zero: the value is below 2^28
Small(x) == \A i \in 1..Len(x) : i > 4 => x[i] = 0

RECURSIVE LowNat(_, _)
LowNat(x, i) ==
    IF i > Len(x) \/ i > 4 THEN 0 ELSE x[i] * Pow128(i - 1) + LowNat(x, i + 1)

\* the value of x when it is below 2^28
ToNat(x) == LowNat(x, 1)

\* x > lim for a limit below 2^28
U64Gt(x, lim) == ~Small(x) \/ ToNat(x) > lim

(* ---------------------- encoding/binary.ReadUvarint ------------------- *)

\* ReadUvarint reading byte by byte from `bytes`, after which the reader
\* reports `end` ("eof" or "err"; "more" when the stream goes on).
\* i: bytes read so far, x: groups decoded so far.
RECURSIVE UvarintLoop(_, _, _, _)
UvarintLoop(bytes, end, i, x) ==
    IF i >= MaxVarintLen64 THEN [x |-> x, n |-> i, err |-> "overflow"]
    ELSE IF i >= Len(bytes)
    THEN [x |-> x, n |-> i,
          err |-> IF end = "eof"
                  THEN (IF i > 0 THEN "ErrUnexpectedEOF" ELSE "EOF")
                  ELSE "readErr"]
    ELSE LET b == bytes[i + 1] IN
         IF b < 128
         THEN IF i = MaxVarintLen64 - 1 /\ b > 1
              THEN [x |-> x, n |-> i + 1, err |-> "overflow"]
              ELSE [x |-> Append(x, b), n |-> i + 1, err |-> "nil"]
         ELSE UvarintLoop(bytes, end, i + 1, Append(x, b % 128))

ReadUvarint(bytes, end) == UvarintLoop(bytes, end, 0, <<>>)

(* ------------------- BufLimitReader (buf_limit_reader.go) ------------- *)

\* NewBufLimitReader(r, 1024, 0): a reader over r with budget N = limit
NewBufLimitReader(limit) == [N |-> limit, PerRead |-> FALSE]

\* What ReadByte calls on b can see of an input that supplies `in.bytes` and
\* then `in.end`: with PerRead the budget is per call and every byte passes;
\* without it only N bytes pass and the next call reports end of data.
BlrWindow(b, in) ==
    IF ~b.PerRead /\ Len(in.bytes) > b.N
    THEN [bytes |-> SubSeq(in.bytes, 1, b.N), end |-> "eof"]
    ELSE in

\* b after a read that delivered n bytes
BlrAfter(b, n) == IF b.PerRead THEN b ELSE [b EXCEPT !.N = b.N - n]

\* Read(p) with len(p) = n on b, the underlying stream answering `out`:
\* the number of bytes delivered
BlrReadLen(b, n, out) ==
    IF b.N <= 0 THEN 0
    ELSE IF out = "data" THEN (IF n > b.N THEN b.N ELSE n)
    ELSE 0

\* a read on b reaches the underlying stream only while budget is left
BlrReaches(b) == b.N > 0

(* --------------------------- environment ------------------------------ *)

\* result bytes a peer sends: Success, InvalidRequest, ServerError, the
\* ends of the undefined range 3..127 and of the application range 128..255
ResBytes == {SuccessCode, InvalidReqCode, ServerErrCode, 3, 127, 128, 255}

Nines == [i \in 1..9 |-> 255]

\* size prefixes a peer sends: complete ones ("more": the stream goes on
\* after them) and ones cut by end of stream or a read error
PrefixInputs ==
    {[bytes |-> <<v>>, end |-> "more"] : v \in 0..(MaxContent + 1)}
    \cup {[bytes |-> <<128, 2>>, end |-> "more"],               \* 256
          [bytes |-> <<129, 2>>, end |-> "more"],               \* 257
          [bytes |-> <<255, 255, 255, 255, 15>>, end |-> "more"], \* 0xFFFFFFFF
          [bytes |-> Nines \o <<1>>, end |-> "more"],           \* 2^64 - 1
          [bytes |-> Nines \o <<2>>, end |-> "more"],           \* overflows
          [bytes |-> Nines \o <<128>>, end |-> "more"]}         \* ten groups
    \cup {[bytes |-> b, end |-> e] : b \in {<<>>, <<128>>}, e \in {"eof", "err"}}

\* buffer lengths the handler reads with
ReadSizes == (1..MaxRead) \cup {MaxErrSize}

\* answers of the stream r to one read; r keeps reporting its end
Outcomes == IF r.state = "open" THEN {"data", "eof", "err"} ELSE {r.state}

(* ----------------- the wire format (lines 27-29) ---------------------- *)

\* an unsigned LEB128 prefix: continuation bytes, then one byte below 128,
\* at most ten bytes and at most 64 bits
WellFormedPrefix(in) ==
    LET n == Len(in.bytes) IN
    /\ in.end = "more"
    /\ n \in 1..MaxVarintLen64
    /\ \A i \in 1..(n - 1) : in.bytes[i] >= 128
    /\ in.bytes[n] < 128
    /\ (n = MaxVarintLen64 => in.bytes[n] <= 1)

\* the size a well-formed prefix declares is at most c (c below 2^28)
DeclaresAtMost(bytes, c) ==
    /\ \A i \in 1..Len(bytes) : i > 4 => bytes[i] % 128 = 0
    /\ (IF Len(bytes) >= 1 THEN bytes[1] % 128 ELSE 0)
        + (IF Len(bytes) >= 2 THEN (bytes[2] % 128) * 128 ELSE 0)
        + (IF Len(bytes) >= 3 THEN (bytes[3] % 128) * 16384 ELSE 0)
        + (IF Len(bytes) >= 4 THEN (bytes[4] % 128) * 2097152 ELSE 0) <= c

\* the ceiling of the declared size of a chunk with result byte res
Ceiling(res) == IF res \in {1, 2} THEN 256 ELSE maxChunkContentSize

\* a chunk header the protocol allows under the limits of the invocation
ValidHeader(res, in) ==
    WellFormedPrefix(in) /\ DeclaresAtMost(in.bytes, Ceiling(res))

(* ------------------ 64-bit arithmetic on 16-bit limbs ----------------- *)

\* the base of the limbs: 2^16
Limb == 65536

\* a limb with its top bit set
TopBit(l) == l >= Limb \div 2

U64Zero == <<0, 0, 0, 0>>
\* -1 as an int: every bit set
MinusOne == <<Limb - 1, Limb - 1, Limb - 1, Limb - 1>>
\* the literal 32 of the snappy bound
ThirtyTwo == <<32, 0, 0, 0>>

\* x + y modulo 2^64
AddU64(x, y) ==
    LET s1 == x[1] + y[1]
        s2 == x[2] + y[2] + (s1 \div Limb)
        s3 == x[3] + y[3] + (s2 \div Limb)
        s4 == x[4] + y[4] + (s3 \div Limb)
    IN  <<s1 % Limb, s2 % Limb, s3 % Limb, s4 % Limb>>

\* x / 6, rounding down
Div6(x) ==
    LET t4 == x[4]
        t3 == (t4 % 6) * Limb + x[3]
        t2 == (t3 % 6) * Limb + x[2]
        t1 == (t2 % 6) * Limb + x[1]
    IN  <<t1 \div 6, t2 \div 6, t3 \div 6, t4 \div 6>>

\* x >= y, unsigned
GeqU64(x, y) ==
    \/ x[4] > y[4]
    \/ x[4] = y[4] /\ x[3] > y[3]
    \/ x[4] = y[4] /\ x[3] = y[3] /\ x[2] > y[2]
    \/ x[4] = y[4] /\ x[3] = y[3] /\ x[2] = y[2] /\ x[1] >= y[1]

\* x > 0xffffffff
Above32(x) == x[3] /= 0 \/ x[4] /= 0

\* an int below zero
Negative(m) == TopBit(m[4])

\* the conversion int(x) of a uint64 on a build whose int has `bits` bits:
\* the low `bits` bits of x, read as two's complement
ToInt(x, bits) ==
    IF bits = 64 THEN x
    ELSE IF TopBit(x[2]) THEN <<x[1], x[2], Limb - 1, Limb - 1>>
    ELSE <<x[1], x[2], 0, 0>>

(* --------------------- github.com/golang/snappy ----------------------- *)

\* snappy.MaxEncodedLen(srcLen int) int:
\*   n := uint64(srcLen); if n > 0xffffffff { return -1 }
\*   n = 32 + n + n/6;    if n > 0xffffffff { return -1 }
\*   return int(n)
SnappyMaxEncodedLen(srcLen, bits) ==
    LET n == srcLen
        b == AddU64(AddU64(ThirtyTwo, n), Div6(n))
    IN  IF Above32(n) THEN MinusOne
        ELSE IF Above32(b) THEN MinusOne
        ELSE ToInt(b, bits)

(* -------------------- SnappyCompression (reqresp) --------------------- *)

\* the widths of int a Go build has
IntWidths == {32, 64}

\* message lengths the callers ask about, limb by limb: small ones, the
\* ones around the largest length snappy encodes (0xdb6db6bf) and around
\* the largest whose bound fits 31 bits (0x6db6db52), and ones with bits
\* set above bit 31 and at bit 63
MsgLens ==
    {<<l1, l2, l3, l4>> :
        l1 \in {0, 5, 6, 46783, 46784, 56146, 56147, 65535},
        l2 \in {0, 28086, 32767, 32768, 56173, 65535},
        l3 \in {0, 1, 32768, 65535},
        l4 \in {0, 1, 32767, 32768, 65535}}

\* SnappyCompression.MaxEncodedLen(msgLen) (lines 34-43) on a build whose
\* int has `bits` bits: the bound and whether an error is returned
MaxEncodedLen(msgLen, bits) ==
    IF TopBit(msgLen[4])
    THEN [bound |-> U64Zero, err |-> TRUE]
    ELSE LET m == SnappyMaxEncodedLen(ToInt(msgLen, bits), bits)
         IN  IF Negative(m)
             THEN [bound |-> U64Zero, err |-> TRUE]
             ELSE [bound |-> m, err |-> FALSE]

(* ------------------- the peer store: documents ------------------------ *)

Procs == 1..NumProcs
PeerIDs == 1..MaxPeers

\* what the crawler learns of a peer: its user agent and where it is
Profiles ==
    {[UserAgent |-> [Name |-> "Lighthouse", Version |-> "v1.0", OS |-> "linux"],
      GeoLocation |-> [Country |-> "DE"]],
     [UserAgent |-> [Name |-> "Lighthouse", Version |-> "v1.1", OS |-> "windows"],
      GeoLocation |-> [Country |-> "US"]],
     [UserAgent |-> [Name |-> "Prysm", Version |-> "v1.0", OS |-> "linux"],
      GeoLocation |-> [Country |-> "US"]]}

\* models.Peer values the callers pass (the fields the store's queries use)
Peers ==
    {[ID |-> i, UserAgent |-> pf.UserAgent, GeoLocation |-> pf.GeoLocation,
      IsConnectable |-> b] : i \in PeerIDs, pf \in Profiles, b \in BOOLEAN}

\* the document the driver stores for a peer: a field is keyed by its bson
\* tag, and by its lower-cased name when it has none (models/peer.go:
\* ID is "_id", GeoLocation "geolocation"; UserAgent and IsConnectable have
\* no bson tag); nested fields are keyed by their path
Marshal(peer) ==
    ("_id" :> peer.ID)
    @@ ("useragent.name" :> peer.UserAgent.Name)
    @@ ("useragent.version" :> peer.UserAgent.Version)
    @@ ("useragent.os" :> peer.UserAgent.OS)
    @@ ("geolocation.country" :> peer.GeoLocation.Country)
    @@ ("isconnectable" :> peer.IsConnectable)

\* positions of the documents of c with this _id
Records(c, id) == {i \in 1..Len(c) : c[i]["_id"] = id}

\* the first document a filter on _id meets
FirstRecord(c, id) ==
    CHOOSE i \in Records(c, id) : \A j \in Records(c, id) : i <= j

\* mongoStore.View (lines 77-91): the error of FindOne(_id = id).Decode
View(c, id) == IF Records(c, id) = {} THEN "ErrPeerNotFound" ELSE "nil"

\* coll.InsertOne (line 47): _id is unique in a collection, a second
\* document with the same _id is refused with a duplicate-key error
InsertOne(c, doc) ==
    IF Records(c, doc["_id"]) /= {}
    THEN [coll |-> c, err |-> "E11000 duplicate key"]
    ELSE [coll |-> Append(c, doc), err |-> "nil"]

\* coll.UpdateOne(_id = id, $set: doc) (line 59): the fields of doc are set
\* in the first matching document; matching none is no error
UpdateOne(c, id, doc) ==
    IF Records(c, id) = {} THEN c
    ELSE [c EXCEPT ![FirstRecord(c, id)] = doc @@ @]

\* coll.DeleteOne(_id = id) (line 70): the first matching document goes
DeleteOne(c, id) ==
    IF Records(c, id) = {} THEN c
    ELSE LET k == FirstRecord(c, id)
         IN  SubSeq(c, 1, k - 1) \o SubSeq(c, k + 1, Len(c))

(* ------------------ the peer store: aggregation stages ---------------- *)

\* {$group: {_id: "$<path>", count: {$sum: 1}}}: one document per distinct
\* value of the field, holding the value and the number of input documents
Group(c, path) ==
    {("_id" :> v) @@ ("count" :> Cardinality({i \in 1..Len(c) : c[i][path] = v})) :
        v \in {c[i][path] : i \in 1..Len(c)}}

\* {$match: {<key>: val}}: the documents that have the field with this value
Match(docs, key, val) == {d \in docs : key \in DOMAIN d /\ d[key] = val}

\* cursor.Decode into aggregateData and the models.AggregateData made of it
Decoded(docs) == {[Name |-> d["_id"], Count |-> d["count"]] : d \in docs}

\* the pipeline of AggregateByAgentName (lines 145-155), and with another
\* path of AggregateByOperatingSystem (236-247) and AggregateByCountry
\* (267-278): $group, then $match on is_connectable
GroupThenMatch(c, path) ==
    Decoded(Match(Group(c, path), "is_connectable", TRUE))

\* first stage of AggregateByClientVersion (lines 184-192)
GroupClientVersion(c) ==
    {("_id.client" :> k[1]) @@ ("_id.version" :> k[2])
     @@ ("versionCount" :>
            Cardinality({i \in 1..Len(c) :
                            /\ c[i]["useragent.name"] = k[1]
                            /\ c[i]["useragent.version"] = k[2]})) :
        k \in {<<c[i]["useragent.name"], c[i]["useragent.version"]>> :
                  i \in 1..Len(c)}}

RECURSIVE SumVersionCount(_)
SumVersionCount(docs) ==
    IF docs = {} THEN 0
    ELSE LET d == CHOOSE x \in docs : TRUE
         IN  d["versionCount"] + SumVersionCount(docs \ {d})

\* third stage of AggregateByClientVersion (lines 196-209): per client the
\* versions with their counts, and the sum of the counts
GroupClient(docs) ==
    {LET mine == {d \in docs : d["_id.client"] = cl}
     IN  [Client |-> cl,
          Count |-> SumVersionCount(mine),
          Versions |-> {[Name |-> d["_id.version"],
                         Count |-> d["versionCount"]] : d \in mine}] :
        cl \in {d["_id.client"] : d \in docs}}

\* the pipeline of AggregateByClientVersion (lines 183-210)
ClientVersionPipeline(c) ==
    GroupClient(Match(GroupClientVersion(c), "is_connectable", TRUE))

(* ------------------------------ values -------------------------------- *)

NoByte == -1
NoRet == [kind |-> "none", index |-> NoIndex]
NilRet == [kind |-> "nil", index |-> NoIndex]
\* a caller of the store that has called nothing yet
Idle == [pc |-> "idle", op |-> "none", id |-> 0, doc |-> <<>>,
         fresh |-> FALSE, err |-> "none", ops |-> 0]
NoAgg == [by |-> "none", of |-> <<>>, out |-> {}]
\* before any call of MaxEncodedLen
NotCalled == [called |-> FALSE, bits |-> 64, msgLen |-> U64Zero,
              bound |-> U64Zero, err |-> FALSE]
NoCall == [ctx |-> "none", chunkIndex |-> NoIndex, chunkSize |-> <<>>,
           result |-> NoByte, yielded |-> 0, reads |-> 0]

Init ==
    /\ maxChunkCount \in 0..MaxCount
    /\ maxChunkContentSize \in 0..MaxContent
    /\ comp \in {"nil", "snappy"}
    /\ pc = "start"
    /\ chunkIndex = 0
    /\ resByte = NoByte
    /\ sizePrefix = <<>>
    /\ chunkSize = <<>>
    /\ blr = NewBufLimitReader(0)
    /\ r = [pos |-> 0, state |-> "open"]
    /\ wClosed = 0
    /\ compressCalls = 0
    /\ calls = <<>>
    /\ hcall = NoCall
    /\ payloadLen = 0
    /\ log = [inputValid |-> TRUE, handlersOk |-> TRUE, flushOk |-> TRUE,
              headers |-> 0, endAtHeader |-> FALSE, cutHeader |-> FALSE,
              cutPayload |-> FALSE, iterStart |-> 0]
    /\ ret = NoRet
    /\ ctx = "live"
    /\ coll = <<>>
    /\ proc = [p \in Procs |-> Idle]
    /\ deleteRan = FALSE
    /\ agg = NoAgg
    /\ maxEnc = NotCalled

(* ------------------------------ helpers ------------------------------- *)

\* mutant of DeferredClose: the deferred Close is missing
DeferredClose_Missing(n) == n

\* the deferred w.Close() of the closure (lines 31-33)
DeferredClose(n) == n + 1

\* mutant of EndOfChunks: end of stream is reported like any read error
EndOfChunks_Never(out) == FALSE

\* errors.Is(err, io.EOF) on the result byte (line 41): no more chunks
EndOfChunks(out) == out = "eof"

\* mutant of LoopContinues: one chunk too many
LoopContinues_OneMore == chunkIndex <= maxChunkCount

\* the loop condition (line 38)
LoopContinues == chunkIndex < maxChunkCount

\* mutant of OnHandlerError: the error of closing the writer is returned
OnHandlerError_CloseErrWins(closeFails) ==
    IF closeFails THEN [kind |-> "closeWriter", index |-> NoIndex]
    ELSE [kind |-> "handler", index |-> NoIndex]

\* the value returned when handleChunk fails (lines 73-76): the handler's
\* error, whatever cw.Close() returned
OnHandlerError(closeFails) == [kind |-> "handler", index |-> NoIndex]

\* mutant of ClosesAfterSuccess: the compressing writer is never flushed
ClosesAfterSuccess_Never == FALSE

\* after a successful handler call cw is closed when compression is
\* configured (line 77)
ClosesAfterSuccess == comp /= "nil"

\* mutant of Return: a return that skips the deferred Close
Return_WithoutClose(e, n) ==
    /\ pc' = "done"
    /\ ret' = e
    /\ wClosed' = n

\* leaving the closure with value e after `n` Close calls on w: the
\* deferred Close runs on every return
Return(e, n) ==
    /\ pc' = "done"
    /\ ret' = e
    /\ wClosed' = DeferredClose(n)

\* mutant of SizeLimit: a declared size equal to the ceiling is refused
SizeLimit_OffByOne(res) ==
    (IF res = InvalidReqCode \/ res = ServerErrCode
     THEN MaxErrSize
     ELSE maxChunkContentSize) - 1

\* mutant of SizeLimit: a code the protocol does not define is refused
SizeLimit_KnownOnly(res) ==
    IF res = InvalidReqCode \/ res = ServerErrCode THEN MaxErrSize
    ELSE IF res = SuccessCode THEN maxChunkContentSize
    ELSE -1

\* mutant of SizeLimit: error-coded chunks checked against the content limit
SizeLimit_NoErrClass(res) == maxChunkContentSize

\* the ceiling the declared size is checked against (lines 56-63)
SizeLimit(res) ==
    IF res = InvalidReqCode \/ res = ServerErrCode
    THEN MaxErrSize
    ELSE maxChunkContentSize

\* the budget blr.N the payload is read under (lines 60, 65); int() of a
\* maxChunkContentSize below 2^63 is the value itself
ReaderBudget(res, size) ==
    IF res = InvalidReqCode \/ res = ServerErrCode
    THEN MaxErrSize
    ELSE maxChunkContentSize

\* mutant of VarintReader: the budget of one byte is not renewed per read
VarintReader_NoPerRead(b) == [b EXCEPT !.N = 1]

\* blr as ReadUvarint gets it (lines 48-49): blr.N = 1; blr.PerRead = true
VarintReader(b) == [b EXCEPT !.N = 1, !.PerRead = TRUE]

\* mutant of HandlerArgs: chunks numbered from 1
HandlerArgs_OneBased ==
    [ctx |-> ctx, chunkIndex |-> chunkIndex + 1, chunkSize |-> chunkSize,
     result |-> resByte, yielded |-> 0, reads |-> 0]

\* the arguments of handleChunk (line 73), with the bytes its reader has
\* yielded and the reads it has made so far
HandlerArgs ==
    [ctx |-> ctx, chunkIndex |-> chunkIndex, chunkSize |-> chunkSize,
     result |-> resByte, yielded |-> 0, reads |-> 0]

\* cw of a chunk (lines 68-72): w itself, or comp.Compress(w)
ChunkWriter == IF comp /= "nil" THEN "snappy" ELSE "w"

\* mutant of ChunkWrap: one reader and writer made once and used for every
\* chunk
ChunkWrap_Reused == IF comp /= "nil" THEN 1 ELSE 0

\* which Decompress reader and Compress writer a chunk gets (lines 69-72):
\* the ones made by this iteration's calls, numbered by the call; 0 stands
\* for blr and w themselves
ChunkWrap == IF comp /= "nil" THEN compressCalls + 1 ELSE 0

\* Close calls on w after cw.Close(): cw is w itself without compression;
\* closing a snappy buffered writer flushes into w and leaves it open
AfterCwClose(writer, n) == IF writer = "w" THEN n + 1 ELSE n

(* ------------------------------ actions ------------------------------- *)

\* variables an action that returns leaves alone
ReturnKeeps == UNCHANGED <<chunkIndex, resByte, sizePrefix, chunkSize,
                           compressCalls, hcall, payloadLen>>

\* lines 30-37: entry of the closure
Invoke ==
    /\ pc = "start"
    /\ UNCHANGED outside
    /\ IF maxChunkCount = 0
       THEN /\ Return(NilRet, wClosed)
            /\ UNCHANGED <<blr, chunkIndex>>
       ELSE /\ blr' = NewBufLimitReader(0)
            /\ chunkIndex' = 0
            /\ pc' = "loop"
            /\ UNCHANGED <<ret, wClosed>>
    /\ UNCHANGED <<maxChunkCount, maxChunkContentSize, comp, resByte,
                   sizePrefix, chunkSize, r, compressCalls, calls, hcall,
                   payloadLen, log>>

\* lines 38, 83: the loop ends because chunkIndex reached maxChunkCount
LoopExit ==
    /\ pc = "loop"
    /\ UNCHANGED outside
    /\ ~LoopContinues
    /\ Return(NilRet, wClosed)
    /\ ReturnKeeps
    /\ UNCHANGED <<maxChunkCount, maxChunkContentSize, comp, blr, r, calls, log>>

\* lines 38-46: blr.N = 1; blr.ReadByte(); end of stream ends the response
ReadResultByte ==
    /\ pc = "loop"
    /\ UNCHANGED outside
    /\ LoopContinues
    /\ \E out \in Outcomes, b \in ResBytes :
        LET b1 == [blr EXCEPT !.N = 1]
            n == BlrReadLen(b1, 1, out)
        IN  /\ blr' = BlrAfter(b1, n)
            /\ r' = [pos |-> r.pos + n,
                     state |-> IF out = "data" THEN r.state ELSE out]
            /\ log' = [log EXCEPT !.endAtHeader = (out = "eof"),
                                  !.inputValid = @ /\ out /= "err"]
            /\ IF out /= "data" /\ EndOfChunks(out)
               THEN /\ Return(NilRet, wClosed)
                    /\ UNCHANGED resByte
               ELSE IF out /= "data"
               THEN /\ Return([kind |-> "resultByte", index |-> chunkIndex],
                              wClosed)
                    /\ UNCHANGED resByte
               ELSE /\ resByte' = b
                    /\ pc' = "size"
                    /\ UNCHANGED <<ret, wClosed>>
    /\ UNCHANGED <<maxChunkCount, maxChunkContentSize, comp, chunkIndex,
                   sizePrefix, chunkSize, compressCalls, calls, hcall,
                   payloadLen>>

\* lines 47-55: blr.N = 1; blr.PerRead = true; binary.ReadUvarint(blr);
\* blr.PerRead = false
ReadChunkSize ==
    /\ pc = "size"
    /\ UNCHANGED outside
    /\ \E in \in PrefixInputs :
        LET b1 == VarintReader(blr)
            whole == ReadUvarint(in.bytes, in.end)
            seen == BlrWindow(b1, in)
            got == ReadUvarint(seen.bytes, seen.end)
            \* the decoder met the end the stream itself reports
            metEnd == in.end /= "more" /\ got.n = Len(in.bytes)
                      /\ got.err \notin {"nil", "overflow"}
        IN  \* the input is the prefix as the peer sent it: a byte-by-byte
            \* decoder reaches the end of a cut one, and stops by itself on
            \* a complete one
            /\ whole.n = Len(in.bytes)
            /\ (in.end = "more") = (whole.err \in {"nil", "overflow"})
            /\ blr' = [BlrAfter(b1, got.n) EXCEPT !.PerRead = FALSE]
            /\ r' = [pos |-> r.pos + got.n,
                     state |-> IF metEnd THEN in.end ELSE r.state]
            /\ sizePrefix' = SubSeq(in.bytes, 1, got.n)
            /\ log' = [log EXCEPT
                         !.inputValid = @ /\ ValidHeader(resByte, in),
                         !.headers = IF ValidHeader(resByte, in)
                                     THEN @ + 1 ELSE @,
                         !.cutHeader = (in.end = "eof")]
            /\ IF got.err /= "nil"
               THEN /\ Return([kind |-> got.err, index |-> NoIndex], wClosed)
                    /\ UNCHANGED chunkSize
               ELSE /\ chunkSize' = got.x
                    /\ pc' = "limit"
                    /\ UNCHANGED <<ret, wClosed>>
    /\ UNCHANGED <<maxChunkCount, maxChunkContentSize, comp, chunkIndex,
                   resByte, compressCalls, calls, hcall, payloadLen>>

\* lines 56-73: the size check, the budget of the payload reader, the
\* per-chunk reader and writer, and the call of handleChunk
LimitAndDispatch ==
    /\ pc = "limit"
    /\ UNCHANGED outside
    /\ IF U64Gt(chunkSize, SizeLimit(resByte))
       THEN /\ Return([kind |-> "sizeLimit", index |-> chunkIndex], wClosed)
            /\ UNCHANGED <<blr, compressCalls, calls, hcall, payloadLen, log>>
       ELSE /\ blr' = [blr EXCEPT !.N = ReaderBudget(resByte, chunkSize)]
            /\ compressCalls' = IF comp /= "nil" THEN compressCalls + 1
                                ELSE compressCalls
            /\ calls' = Append(calls, [chunkIndex |-> chunkIndex,
                                       status |-> "running",
                                       writer |-> ChunkWriter,
                                       wrap |-> ChunkWrap,
                                       writerClosed |-> 0])
            /\ hcall' = HandlerArgs
            \* without compression the payload is chunkSize bytes; a
            \* compressed payload has the length its encoder gave it
            /\ IF comp = "nil"
               THEN payloadLen' = ToNat(chunkSize)
               ELSE payloadLen' \in 0..MaxWire
            /\ pc' = "handler"
            /\ UNCHANGED <<ret, wClosed, log>>
    /\ UNCHANGED <<maxChunkCount, maxChunkContentSize, comp, chunkIndex,
                   resByte, sizePrefix, chunkSize, r>>

\* the handler (or the decompressor on its behalf) reads from the payload
\* reader with a buffer of n bytes
HandlerRead ==
    /\ pc = "handler"
    /\ UNCHANGED outside
    /\ hcall.reads < MaxReads
    /\ \E n \in ReadSizes, out \in Outcomes :
        LET k == BlrReadLen(blr, n, out)
            reached == BlrReaches(blr)
        IN  /\ blr' = BlrAfter(blr, k)
            /\ r' = IF reached
                    THEN [pos |-> r.pos + k,
                          state |-> IF out = "data" THEN r.state ELSE out]
                    ELSE r
            /\ hcall' = [hcall EXCEPT !.yielded = @ + k, !.reads = @ + 1]
            /\ log' = IF reached /\ out /= "data"
                      THEN [log EXCEPT
                              !.inputValid = @ /\ out = "eof"
                                               /\ hcall.yielded >= payloadLen,
                              !.cutPayload = @ \/ (out = "eof" /\
                                                   hcall.yielded < payloadLen)]
                      ELSE log
    /\ UNCHANGED <<maxChunkCount, maxChunkContentSize, comp, pc, chunkIndex,
                   resByte, sizePrefix, chunkSize, wClosed, compressCalls,
                   calls, payloadLen, ret>>

\* lines 73-82: handleChunk returns herr; closeFails tells whether the
\* cw.Close() that follows returns an error
HandlerReturn ==
    /\ pc = "handler"
    /\ UNCHANGED outside
    /\ \E herr \in {"nil", "err"}, closeFails \in BOOLEAN :
        LET k == Len(calls)
            writer == calls[k].writer
            consumed == hcall.yielded = payloadLen
        IN  /\ (closeFails => herr /= "nil" \/ ClosesAfterSuccess)
            /\ IF herr /= "nil"
               THEN /\ calls' = [calls EXCEPT ![k].status = "err",
                                              ![k].writerClosed = @ + 1]
                    /\ Return(OnHandlerError(closeFails),
                              AfterCwClose(writer, wClosed))
                    /\ log' = [log EXCEPT !.handlersOk = FALSE,
                                          !.flushOk = @ /\ ~closeFails]
                    /\ UNCHANGED <<chunkIndex, resByte, sizePrefix, chunkSize,
                                   hcall, payloadLen>>
               ELSE IF ClosesAfterSuccess /\ closeFails
               THEN /\ calls' = [calls EXCEPT ![k].status = "ok",
                                              ![k].writerClosed = @ + 1]
                    /\ Return([kind |-> "closeWriter", index |-> NoIndex],
                              AfterCwClose(writer, wClosed))
                    /\ log' = [log EXCEPT !.handlersOk = @ /\ consumed,
                                          !.flushOk = FALSE]
                    /\ UNCHANGED <<chunkIndex, resByte, sizePrefix, chunkSize,
                                   hcall, payloadLen>>
               ELSE /\ calls' = [calls EXCEPT
                                   ![k].status = "ok",
                                   ![k].writerClosed =
                                       IF ClosesAfterSuccess THEN @ + 1 ELSE @]
                    /\ wClosed' = IF ClosesAfterSuccess
                                  THEN AfterCwClose(writer, wClosed)
                                  ELSE wClosed
                    /\ log' = [log EXCEPT !.handlersOk = @ /\ consumed,
                                          !.iterStart = r.pos]
                    \* the next iteration: the locals of the loop body go
                    /\ chunkIndex' = chunkIndex + 1
                    /\ resByte' = NoByte
                    /\ sizePrefix' = <<>>
                    /\ chunkSize' = <<>>
                    /\ hcall' = NoCall
                    /\ payloadLen' = 0
                    /\ pc' = "loop"
                    /\ UNCHANGED ret
    /\ UNCHANGED <<maxChunkCount, maxChunkContentSize, comp, blr, r,
                   compressCalls>>

\* the caller cancels the context while the invocation is between two
\* chunks; the closure never reads ctx, it only hands it to handleChunk, so
\* a cancellation at any other moment is seen at the same places
Cancel ==
    /\ pc = "loop"
    /\ ctx = "live"
    /\ ctx' = "cancelled"
    /\ UNCHANGED <<codec, store, maxEnc>>

Next ==
    \/ Invoke
    \/ LoopExit
    \/ ReadResultByte
    \/ ReadChunkSize
    \/ LimitAndDispatch
    \/ HandlerRead
    \/ HandlerReturn

\* an invocation whose context is never cancelled
Spec == Init /\ [][Next]_vars

NextCtx ==
    \/ Next
    \/ Cancel

\* an invocation whose context the caller may cancel
SpecCtx == Init /\ [][NextCtx]_vars

(* ------------------------ peer store: methods ------------------------- *)

\* the method of caller p returns err
StoreReturn(p, err) ==
    proc' = [proc EXCEPT ![p].pc = "idle", ![p].err = err, ![p].ops = @ + 1]

\* lines 31-41: Upsert(ctx, peer) is called and makes its View: Create
\* when the peer is not found, Update otherwise
Upsert(p) ==
    /\ proc[p].pc = "idle"
    /\ proc[p].ops < MaxOps
    /\ \E peer \in Peers :
        LET err == View(coll, peer.ID)
        IN  proc' = [proc EXCEPT ![p] =
                        [pc |-> IF err = "ErrPeerNotFound"
                                THEN "Create" ELSE "Update",
                         op |-> "Upsert", id |-> peer.ID,
                         doc |-> Marshal(peer),
                         fresh |-> (err = "ErrPeerNotFound"),
                         err |-> "none", ops |-> proc[p].ops]]
    /\ UNCHANGED <<coll, deleteRan, agg, codec, ctx, maxEnc>>

\* lines 43-46, 50-52: Create makes its own View; a peer found by now is
\* left as it is
Create(p) ==
    /\ proc[p].pc = "Create"
    /\ IF View(coll, proc[p].id) = "ErrPeerNotFound"
       THEN proc' = [proc EXCEPT ![p].pc = "InsertOne"]
       ELSE StoreReturn(p, "nil")
    /\ UNCHANGED <<coll, deleteRan, agg, codec, ctx, maxEnc>>

\* lines 47-48: s.coll.InsertOne(ctx, peer), whose error Create and Upsert
\* return
CreateInsert(p) ==
    /\ proc[p].pc = "InsertOne"
    /\ LET res == InsertOne(coll, proc[p].doc)
       IN  /\ coll' = res.coll
           /\ StoreReturn(p, res.err)
    /\ UNCHANGED <<deleteRan, agg, codec, ctx, maxEnc>>

\* lines 55-64: Update
Update(p) ==
    /\ proc[p].pc = "Update"
    /\ coll' = UpdateOne(coll, proc[p].id, proc[p].doc)
    /\ StoreReturn(p, "nil")
    /\ UNCHANGED <<deleteRan, agg, codec, ctx, maxEnc>>

\* lines 66-75: Delete(ctx, peer)
Delete(p) ==
    /\ proc[p].pc = "idle"
    /\ proc[p].ops < MaxOps
    /\ \E id \in PeerIDs :
        /\ coll' = DeleteOne(coll, id)
        /\ proc' = [proc EXCEPT ![p] =
                        [pc |-> "idle", op |-> "Delete", id |-> id,
                         doc |-> <<>>, fresh |-> FALSE, err |-> "nil",
                         ops |-> proc[p].ops + 1]]
    /\ deleteRan' = TRUE
    /\ UNCHANGED <<agg, codec, ctx, maxEnc>>

\* lines 144-174
AggregateByAgentName ==
    /\ agg' = [by |-> "AgentName", of |-> coll,
               out |-> GroupThenMatch(coll, "useragent.name")]
    /\ UNCHANGED <<coll, proc, deleteRan, codec, ctx, maxEnc>>

\* lines 182-233
AggregateByClientVersion ==
    /\ agg' = [by |-> "ClientVersion", of |-> coll,
               out |-> ClientVersionPipeline(coll)]
    /\ UNCHANGED <<coll, proc, deleteRan, codec, ctx, maxEnc>>

\* lines 235-264
AggregateByOperatingSystem ==
    /\ agg' = [by |-> "OperatingSystem", of |-> coll,
               out |-> GroupThenMatch(coll, "useragent.os")]
    /\ UNCHANGED <<coll, proc, deleteRan, codec, ctx, maxEnc>>

\* lines 266-295
AggregateByCountry ==
    /\ agg' = [by |-> "Country", of |-> coll,
               out |-> GroupThenMatch(coll, "geolocation.country")]
    /\ UNCHANGED <<coll, proc, deleteRan, codec, ctx, maxEnc>>

NextStore ==
    \/ \E p \in Procs : Upsert(p)
    \/ \E p \in Procs : Create(p)
    \/ \E p \in Procs : CreateInsert(p)
    \/ \E p \in Procs : Update(p)
    \/ \E p \in Procs : Delete(p)
    \/ AggregateByAgentName
    \/ AggregateByClientVersion
    \/ AggregateByOperatingSystem
    \/ AggregateByCountry

\* the store on its own: no response is being decoded
InitStore ==
    /\ Init
    /\ maxChunkCount = 0
    /\ maxChunkContentSize = 0
    /\ comp = "nil"

\* the callers of the store, interleaved between the driver calls
SpecStore == InitStore /\ [][NextStore]_vars

(* ------------------------ SnappyCompression --------------------------- *)

\* a caller asks for the bound of a message length; the method keeps no
\* state, so one call per behaviour shows all it does
CallMaxEncodedLen ==
    /\ ~maxEnc.called
    /\ \E bits \in IntWidths, msgLen \in MsgLens :
        LET res == MaxEncodedLen(msgLen, bits)
        IN  maxEnc' = [called |-> TRUE, bits |-> bits, msgLen |-> msgLen,
                       bound |-> res.bound, err |-> res.err]
    /\ UNCHANGED <<codec, ctx, store>>

NextSnappy == CallMaxEncodedLen

\* the compression capability on its own: no response is being decoded
InitSnappy ==
    /\ Init
    /\ maxChunkCount = 0
    /\ maxChunkContentSize = 0
    /\ comp = "snappy"

SpecSnappy == InitSnappy /\ [][NextSnappy]_vars

(* ------------------------------ claims -------------------------------- *)

\* the chunkIndex arguments of the handler calls are 0, 1, ..., n-1 in order
CallsInOrder == \A i \in 1..Len(calls) : calls[i].chunkIndex = i - 1

\* the input seen by the invocation is a valid encoding within the limits,
\* and every handler call consumed its payload and returned nil
ValidRun == log.inputValid /\ log.handlersOk

\* the number of chunks N of a valid input no longer than maxChunkCount:
\* the stream ended after log.headers chunks, or it holds maxChunkCount
ChunksHandled ==
    /\ Len(calls) = log.headers
    /\ (~log.endAtHeader => Len(calls) = maxChunkCount)

C2_PayloadReaderBounded ==
    hcall.chunkIndex /= NoIndex => hcall.yielded <= ToNat(hcall.chunkSize)

\* C3: when the invocation has returned, Close has been called on w exactly
\* once, on every outcome.
C3_ClosedExactlyOnce == pc = "done" => wClosed = 1

\* C4: when the invocation has returned, by whatever exit path, w has been
\* closed at least once; and it has returned exactly when it has a value.
C4_ClosedOnEveryExit ==
    /\ (pc = "done") = (ret /= NoRet)
    /\ pc = "done" => wClosed >= 1

\* an exit on a failure path: a size-limit violation on the second chunk
C4_Witness ==
    pc = "done" /\ ret.kind = "sizeLimit" /\ ret.index = 1 /\ wClosed >= 1

\* the size check of the current chunk has been made: the prefix was decoded
\* and the invocation went on to the handler or returned on the check
SizeChecked ==
    /\ WellFormedPrefix([bytes |-> sizePrefix, end |-> "more"])
    /\ pc \in {"handler", "done"}

C6_CleanTermination ==
    (pc = "done" /\ log.endAtHeader) =>
        /\ ret = NilRet
        /\ Len(calls) = log.headers
        /\ chunkIndex = log.headers
        /\ \A i \in 1..Len(calls) : calls[i].status = "ok"

\* the stream ends after one chunk of a response that may hold two
C6_Witness ==
    /\ pc = "done" /\ log.endAtHeader
    /\ maxChunkCount = 2
    /\ Len(calls) = 1
    /\ ~log.cutPayload
    /\ ret = NilRet

\* C7: a response that ends inside a chunk (inside the size prefix, or
\* inside the declared payload) makes the invocation return an error, and w
\* is closed exactly once.
C7_TruncationFails ==
    (pc = "done" /\ (log.cutHeader \/ log.cutPayload)) =>
        (ret.kind \notin {"nil", "none"} /\ wClosed = 1)

\* C8: with maxChunkCount = 0 the invocation returns nil without reading
\* from the input, without invoking the handler, and closes w.
C8_ZeroChunks ==
    maxChunkCount = 0 =>
        /\ pc \in {"start", "done"}
        /\ r = [pos |-> 0, state |-> "open"]
        /\ calls = <<>>
        /\ compressCalls = 0
        /\ pc = "done" => (ret = NilRet /\ wClosed = 1)

C8_Witness == maxChunkCount = 0 /\ pc = "done" /\ wClosed = 1

\* C9: when the handler fails for chunk k, the writer of the chunk is
\* closed, the invocation returns the handler's error (also when that close
\* fails), and it has ended: no later chunk is handled and nothing more is
\* read.
C9_FailFast ==
    \A i \in 1..Len(calls) :
        calls[i].status = "err" =>
            /\ i = Len(calls)
            /\ calls[i].writerClosed = 1
            /\ pc = "done"
            /\ ret = [kind |-> "handler", index |-> NoIndex]
            /\ chunkIndex = calls[i].chunkIndex

\* the handler fails on the second chunk and closing its writer fails too
C9_Witness ==
    /\ Len(calls) = 2
    /\ calls[2].status = "err"
    /\ ~log.flushOk
    /\ ret.kind = "handler"

\* C10: the handlers run in index order and one at a time: while the
\* handler of a chunk runs or after it, every earlier call has returned
\* nil and, with compression, the writer of its chunk has been closed.
C10_HandlersInOrder ==
    /\ CallsInOrder
    /\ \A i \in 1..(Len(calls) - 1) :
           /\ calls[i].status = "ok"
           /\ (comp /= "nil" => calls[i].writerClosed = 1)
    /\ (pc = "handler") = (Len(calls) > 0 /\ calls[Len(calls)].status = "running")

\* the second handler runs, with compression
C10_Witness ==
    /\ comp /= "nil"
    /\ Len(calls) = 2
    /\ calls[2].status = "running"
    /\ calls[1].writerClosed = 1

\* C11: when the context is cancelled before an iteration of the loop
\* starts, that iteration fails with a cancellation error (no decode
\* failure), the handler is invoked for no chunk from then on, and w is
\* closed.
C11_CancelStopsLoop ==
    ctx = "cancelled" =>
        /\ pc \in {"loop", "done"}
        /\ (pc = "done" /\ chunkIndex < maxChunkCount) =>
               (ret.kind = "cancelled" /\ wClosed >= 1)
        /\ \A i \in 1..Len(calls) : calls[i].status /= "running"

\* the loop ended on the chunk count: the input was valid as far as it was
\* read and did not end, so it may hold any number of further chunks
StoppedByCount == pc = "done" /\ ValidRun /\ ~log.endAtHeader

SameValue(bytes, x) ==
    \A c \in (0..(MaxContent + 1)) \cup {MaxErrSize} :
        DeclaresAtMost(bytes, c) = ~U64Gt(x, c)

\* C13: the handler of an accepted chunk is invoked with the 0-based
\* position of the chunk, with the first byte of the chunk as result, and
\* with the unsigned LEB128 value of the size prefix (low 7 bits of each
\* byte, least significant first, up to the first byte with bit 7 clear);
\* a response of one uncompressed chunk followed by end of stream gives one
\* invocation and nil.
C13_HeaderFidelity ==
    /\ pc = "handler" =>
          /\ hcall.chunkIndex = Len(calls) - 1
          /\ hcall.result = resByte
          /\ WellFormedPrefix([bytes |-> sizePrefix, end |-> "more"])
          /\ Len(hcall.chunkSize) = Len(sizePrefix)
          /\ \A i \in 1..Len(sizePrefix) :
                 hcall.chunkSize[i] = sizePrefix[i] % 128
          /\ SameValue(sizePrefix, hcall.chunkSize)
    /\ (pc = "done" /\ ValidRun /\ comp = "nil" /\ log.endAtHeader) =>
          (ret = NilRet /\ r.pos = log.iterStart)

\* the scenario [0x00, 0x05, 'h','e','l','l','o'] at the scale of the
\* bounds: [0x00, 0x02, 'h', 'e'], no compression, the reader has yielded
\* the two payload bytes
C13_Witness ==
    /\ pc = "handler"
    /\ comp = "nil"
    /\ maxChunkContentSize = MaxContent
    /\ sizePrefix = <<MaxContent>>
    /\ hcall = [ctx |-> "live", chunkIndex |-> 0, chunkSize |-> <<MaxContent>>,
                result |-> SuccessCode, yielded |-> MaxContent, reads |-> 1]
    /\ r.pos = MaxContent + 2

\* the values the invocation returns when decoding a chunk header fails
DecodeFailures ==
    {"resultByte", "EOF", "ErrUnexpectedEOF", "readErr", "overflow"}

\* C15: every decode failure the invocation returns (end of stream or a
\* read error in the result byte or in the size prefix, a malformed or
\* overflowing size prefix) carries the index of the chunk being decoded.
C15_DecodeErrorsCarryIndex ==
    (pc = "done" /\ ret.kind \in DecodeFailures) => ret.index = chunkIndex

\* C16: with compression every chunk gets a reader and a writer made for
\* it (as many Compress calls as handler invocations, none used twice);
\* after a successful handler call the writer of the chunk is closed before
\* the next header is decoded; when that close fails the invocation returns
\* an error and handles no later chunk; closing such a writer never closes
\* w, which only the return of the invocation closes.
C16_FreshWriterPerChunk ==
    comp /= "nil" =>
        /\ compressCalls = Len(calls)
        /\ \A i \in 1..Len(calls) :
               /\ calls[i].writer = "snappy"
               /\ \A j \in 1..Len(calls) :
                      i /= j => calls[i].wrap /= calls[j].wrap
               /\ calls[i].status = "ok" => calls[i].writerClosed = 1
               /\ calls[i].status = "running" =>
                      (i = Len(calls) /\ pc = "handler")
               /\ (i = Len(calls) /\ calls[i].status = "ok" /\ ~log.flushOk) =>
                      /\ ret = [kind |-> "closeWriter", index |-> NoIndex]
                      /\ chunkIndex = calls[i].chunkIndex
        /\ ~log.flushOk => pc = "done"
        /\ ret.kind = "closeWriter" =>
               (~log.flushOk /\ calls[Len(calls)].status = "ok")
        /\ wClosed = (IF pc = "done" THEN 1 ELSE 0)

\* closing the writer of the second chunk fails after its handler succeeded
C16_Witness ==
    /\ comp /= "nil"
    /\ Len(calls) = 2
    /\ calls[1].writerClosed = 1 /\ calls[2].writerClosed = 1
    /\ calls[2].status = "ok"
    /\ ret.kind = "closeWriter"
    /\ wClosed = 1

\* bytes of the header of the current chunk the orchestrator has read
HeaderRead == (IF resByte = NoByte THEN 0 ELSE 1) + Len(sizePrefix)

\* C17: of each chunk the orchestrator itself reads the result byte and the
\* bytes of the size prefix, up to the first byte with bit 7 clear, and
\* nothing else: the byte after the prefix is unread when the handler is
\* invoked, everything read beyond the header was read by the handler, and
\* between two handler calls only header bytes are read.
C17_NoOverRead ==
    /\ r.pos = log.iterStart + HeaderRead + hcall.yielded
    /\ pc = "loop" => HeaderRead = 0
    /\ pc = "size" => HeaderRead = 1
    /\ pc \in {"limit", "handler"} =>
          WellFormedPrefix([bytes |-> sizePrefix, end |-> "more"])
    /\ pc \in {"loop", "size", "limit"} => hcall.yielded = 0
    /\ \A i \in 1..(Len(sizePrefix) - 1) : sizePrefix[i] >= 128
    /\ (pc = "done" /\ ret.kind \in {"EOF", "ErrUnexpectedEOF"}) =>
          r.state = "eof"
    /\ (pc = "done" /\ ret.kind = "readErr") => r.state = "err"

\* the handler of the second chunk is invoked behind a two-byte prefix,
\* the first chunk having had payload
C17_Witness ==
    /\ pc = "handler"
    /\ Len(calls) = 2
    /\ Len(sizePrefix) = 2
    /\ hcall.yielded = 0
    /\ log.iterStart > 2
    /\ r.pos = log.iterStart + 3

\* C18: a chunk whose result byte is neither InvalidRequest nor ServerError
\* (the undefined values 3..127 and the application range 128..255
\* included) is never refused for its code: the invocation goes on after
\* reading it, a size-limit error means the declared size is above
\* maxChunkContentSize, and with a declared size of at most
\* maxChunkContentSize the handler is invoked with the code as it was read.
C18_OpaqueCodes ==
    (resByte /= NoByte /\ resByte \notin {InvalidReqCode, ServerErrCode}) =>
        /\ pc \in {"size", "limit"} => ret = NoRet
        /\ ret.kind \in {"none", "EOF", "ErrUnexpectedEOF", "readErr",
                          "overflow", "sizeLimit", "handler", "closeWriter"}
        /\ ret.kind = "sizeLimit" =>
               ~DeclaresAtMost(sizePrefix, maxChunkContentSize)
        /\ (SizeChecked /\ DeclaresAtMost(sizePrefix, maxChunkContentSize)) =>
               /\ Len(calls) = chunkIndex + 1
               /\ hcall.chunkIndex = chunkIndex
               /\ hcall.result = resByte
               /\ ret.kind \in {"none", "handler", "closeWriter"}

\* the handler is invoked for a chunk with code 255 and a payload as large
\* as the limit allows
C18_Witness ==
    /\ pc = "handler"
    /\ resByte = 255
    /\ hcall.result = 255
    /\ maxChunkContentSize = MaxContent
    /\ sizePrefix = <<MaxContent>>
    /\ Len(calls) = 2

\* caller p has returned from an Upsert
UpsertReturned(p) == proc[p].pc = "idle" /\ proc[p].op = "Upsert"

\* C19: two Upsert calls for the same peer ID that is not stored when each
\* of them looks for it both return nil and leave exactly one record for
\* the ID; and while no Delete has run, an Upsert that returned nil has
\* left a record for its ID.
C19_UpsertInterleavingSafe ==
    /\ \A p, q \in Procs :
          (/\ p /= q
           /\ UpsertReturned(p) /\ UpsertReturned(q)
           /\ proc[p].id = proc[q].id
           /\ proc[p].fresh /\ proc[q].fresh
           /\ ~deleteRan) =>
              /\ proc[p].err = "nil" /\ proc[q].err = "nil"
              /\ Cardinality(Records(coll, proc[p].id)) = 1
    /\ \A p \in Procs :
          (UpsertReturned(p) /\ proc[p].err = "nil" /\ ~deleteRan) =>
              Records(coll, proc[p].id) /= {}

\* positions of the stored peers that are connectable
Connectable(c) == {i \in 1..Len(c) : c[i]["isconnectable"]}

\* one entry per value of the field among the connectable peers, with the
\* number of connectable peers that have the value
CountConnectable(c, path) ==
    {[Name |-> v,
      Count |-> Cardinality({i \in Connectable(c) : c[i][path] = v})] :
        v \in {c[i][path] : i \in Connectable(c)}}

\* the same per client, with the counts per version of the client
CountConnectableVersions(c) ==
    {LET mine == {i \in Connectable(c) : c[i]["useragent.name"] = cl}
     IN  [Client |-> cl,
          Count |-> Cardinality(mine),
          Versions |->
              {[Name |-> v,
                Count |-> Cardinality({i \in mine :
                                          c[i]["useragent.version"] = v})] :
                  v \in {c[i]["useragent.version"] : i \in mine}}] :
        cl \in {c[i]["useragent.name"] : i \in Connectable(c)}}

\* C20: AggregateByAgentName, AggregateByOperatingSystem and
\* AggregateByCountry return one entry for every value of the field among
\* the stored connectable peers, counting the connectable peers with that
\* value and no others; AggregateByClientVersion counts the connectable
\* peers per client and version.
C20_AggregatesCountConnectable ==
    /\ agg.by = "AgentName" =>
          agg.out = CountConnectable(agg.of, "useragent.name")
    /\ agg.by = "OperatingSystem" =>
          agg.out = CountConnectable(agg.of, "useragent.os")
    /\ agg.by = "Country" =>
          agg.out = CountConnectable(agg.of, "geolocation.country")
    /\ agg.by = "ClientVersion" =>
          agg.out = CountConnectableVersions(agg.of)

\* the largest int of a build
MaxInt(bits) ==
    IF bits = 64 THEN <<Limb - 1, Limb - 1, Limb - 1, Limb \div 2 - 1>>
    ELSE <<Limb - 1, Limb \div 2 - 1, 0, 0>>

\* snappy has no bound for a message of this length: the length or its
\* bound 32 + x + x/6 is above 0xffffffff, or the bound is no int of the
\* build
TooLargeToEncode(x, bits) ==
    \/ Above32(x)
    \/ LET b == AddU64(AddU64(ThirtyTwo, x), Div6(x))
       IN  Above32(b) \/ ~GeqU64(MaxInt(bits), b)

\* what the last call returned is right for its msgLen
MaxEncodedLenSound ==
    LET x == maxEnc.msgLen
        refused == TopBit(x[4]) \/ TooLargeToEncode(x, maxEnc.bits)
    IN  /\ refused => maxEnc.err
        /\ ~refused => ~maxEnc.err
        /\ ~maxEnc.err => GeqU64(maxEnc.bound, x)

\* the same on the builds whose int has 64 bits
SoundWhereIntIs64Bits ==
    (maxEnc.called /\ maxEnc.bits = 64) => MaxEncodedLenSound

\* C21: MaxEncodedLen returns an error for every msgLen with bit 63 set and
\* for every msgLen snappy has no bound for; for every other msgLen it
\* returns no error and a bound of at least msgLen: never a bound below
\* the length it was asked about, never a wrapped-around value.
C21_MaxEncodedLenSound == maxEnc.called => MaxEncodedLenSound

====
